---- MODULE Spec2Model ----
(***************************************************************************)
(* Model of check_i18n_strings.py: a script that globs the locale string   *)
(* tables of an Android resource tree, parses each one as XML, tallies the *)
(* `name` attribute of the root's immediate children and prints every name *)
(* that occurs more than once in the same file.                            *)
(*                                                                         *)
(* An optional value (the result of dict.get, the process exit status) is  *)
(* a sequence: << >> is None / "not set", <<v>> is the value v.            *)
(***************************************************************************)
EXTENDS Integers, Sequences, FiniteSets, TLC

\* ------------------------------------------------------------------ bounds
\* Size of the largest resource tree: its files plus the XML elements
\* (children of a root and their descendants) in them.
MaxSize == 6

\* ------------------------------------------------------------------ inputs
\* Values a `name` attribute takes in the modelled documents.
Names == {"", "a", "b"}
\* elem.attrib.get('name'): None when the attribute is absent.
NameOpts == {<< >>} \cup {<<v>> : v \in Names}
\* `name` values carried by elements nested below a child of the root.
KidOpts == {<<"a">>}

\* A file that ET.parse rejects.
Malformed == [ok |-> FALSE, root |-> << >>]

\* The children of a root that hold w elements: the child itself, whose
\* `name` attribute is name, and w - 1 descendants whose `name` attributes
\* are kids.
ElemsOfSize(w) == [name : NameOpts, kids : [1..(w - 1) -> KidOpts]]

\* The roots whose children hold n elements in all.
RootsOfSize[n \in 0..MaxSize] ==
    IF n = 0 THEN {<< >>}
    ELSE UNION {UNION {{<<e>> \o r : r \in RootsOfSize[n - w]} : e \in ElemsOfSize(w)} :
                w \in 1..n}

\* The files of size s: the file itself and the n = s - 1 elements in it.
FilesOfSize(s) ==
    {[ok |-> TRUE, root |-> r] : r \in RootsOfSize[s - 1]}
    \cup (IF s = 1 THEN {Malformed} ELSE {})

\* What the locator can yield from a resource tree of size s.
FileSystems[s \in 0..MaxSize] ==
    IF s = 0 THEN {<< >>}
    ELSE UNION {UNION {{<<f>> \o rest : rest \in FileSystems[s - w]} : f \in FilesOfSize(w)} :
                w \in 1..s}

\* ------------------------------------------------------------------- state
VARIABLES
    files,        \* what glob.glob returns, in its order; a path is an index
    fi,           \* the module-level loop: index of the current file_path
    pc,           \* position of the script
    root,         \* check_xml: children of the parsed root
    ei,           \* check_xml: children consumed by the first loop
    name_cache,   \* check_xml: the defaultdict, items in insertion order
    ii,           \* check_xml: items consumed by the second loop
    output,       \* lines printed to standard output
    parse_log,    \* file_paths handed to ET.parse, in call order
    exit_status   \* exit status of the process once it has ended

vars == <<files, fi, pc, root, ei, name_cache, ii, output, parse_log, exit_status>>

\* ------------------------------------------------------------- check_xml
\* `for elem in root`: an Element iterates over its immediate children.
IterAllDescendants(r) ==
    LET RECURSIVE Flat(_)
        Flat(s) == IF s = << >> THEN << >>
                   ELSE <<Head(s)>>
                        \o [j \in 1..Len(Head(s).kids) |->
                              [name |-> Head(s).kids[j], kids |-> << >>]]
                        \o Flat(Tail(s))
    IN  Flat(r)

IterRoot(r) == r

\* elem.attrib.get('name')
AttribGetName(elem) == elem.name

\* `if name:` None and the empty string are both falsy.
TruthyAlways(name) == TRUE

Truthy(name) == name # << >> /\ name[1] # ""

\* name_cache[name] += 1 on a defaultdict(int): a missing key is inserted
\* at the end with 0 + 1, a present key keeps its position.
IncrMoveToEnd(cache, name) ==
    LET hit == {j \in DOMAIN cache : cache[j].name = name}
    IN  IF hit = {} THEN Append(cache, [name |-> name, count |-> 1])
        ELSE LET j == CHOOSE x \in hit : TRUE
             IN  Append(SelectSeq(cache, LAMBDA it : it.name # name),
                        [name |-> name, count |-> cache[j].count + 1])

Incr(cache, name) ==
    LET hit == {j \in DOMAIN cache : cache[j].name = name}
    IN  IF hit = {} THEN Append(cache, [name |-> name, count |-> 1])
        ELSE LET j == CHOOSE x \in hit : TRUE
             IN  [cache EXCEPT ![j].count = @ + 1]

\* `if count > 1`
IsDuplicateFromOne(count) == count >= 1

IsDuplicate(count) == count > 1

\* name_cache = defaultdict(int)
StaleCache == name_cache

FreshCache == << >>

\* f"{file_path}: {name} - {count} occurrences"
Line(file_path, name, count) == [file |-> file_path, name |-> name, count |-> count]

\* The first loop of check_xml as a function of the elements it iterates.
RECURSIVE TallyFrom(_, _)
TallyFrom(cache, elems) ==
    IF elems = << >> THEN cache
    ELSE LET name == AttribGetName(Head(elems))
         IN  TallyFrom(IF Truthy(name) THEN Incr(cache, name) ELSE cache, Tail(elems))

Tally(elems) == TallyFrom(FreshCache, elems)

\* The second loop of check_xml: the lines it prints for one file.
Report(file_path, cache) ==
    LET dup == SelectSeq(cache, LAMBDA it : IsDuplicate(it.count))
    IN  [j \in 1..Len(dup) |-> Line(file_path, dup[j].name, dup[j].count)]

\* ----------------------------------------------------------------- actions
Init ==
    /\ \E s \in 0..MaxSize : files \in FileSystems[s]
    /\ fi = 0
    /\ pc = "main"
    /\ root = << >>
    /\ ei = 0
    /\ name_cache = << >>
    /\ ii = 0
    /\ output = << >>
    /\ parse_log = << >>
    /\ exit_status = << >>

\* for file_path in glob.glob(...): check_xml(file_path)
CallNext ==
    /\ pc = "main"
    /\ fi < Len(files)
    /\ fi' = fi + 1
    /\ pc' = "parse"
    /\ UNCHANGED <<files, root, ei, name_cache, ii, output, parse_log, exit_status>>

\* The loop is exhausted and the module ends.
ExitStatusByFindings == IF output = << >> THEN <<0>> ELSE <<1>>

ExitStatusAtEnd == <<0>>

Finish ==
    /\ pc = "main"
    /\ fi = Len(files)
    /\ pc' = "exited"
    /\ exit_status' = ExitStatusAtEnd
    /\ UNCHANGED <<files, fi, root, ei, name_cache, ii, output, parse_log>>

\* tree = ET.parse(file_path); root = tree.getroot(); name_cache = defaultdict(int)
ParseOk ==
    /\ pc = "parse"
    /\ files[fi].ok
    /\ parse_log' = Append(parse_log, fi)
    /\ root' = files[fi].root
    /\ name_cache' = FreshCache
    /\ ei' = 0
    /\ pc' = "count"
    /\ UNCHANGED <<files, fi, ii, output, exit_status>>

\* ET.parse raises ParseError; nothing catches it, the interpreter prints
\* the traceback and ends the process with status 1.
ParseErrorSkip ==
    /\ pc = "parse"
    /\ ~files[fi].ok
    /\ parse_log' = Append(parse_log, fi)
    /\ pc' = "main"
    /\ UNCHANGED <<files, fi, root, ei, name_cache, ii, output, exit_status>>

ParseError ==
    /\ pc = "parse"
    /\ ~files[fi].ok
    /\ parse_log' = Append(parse_log, fi)
    /\ pc' = "exited"
    /\ exit_status' = <<1>>
    /\ UNCHANGED <<files, fi, root, ei, name_cache, ii, output>>

\* One iteration of `for elem in root`.
CountElemEager ==
    /\ pc = "count"
    /\ ei < Len(IterRoot(root))
    /\ ei' = ei + 1
    /\ LET name == AttribGetName(IterRoot(root)[ei + 1])
           next == IF Truthy(name) THEN Incr(name_cache, name) ELSE name_cache
           hit  == {j \in DOMAIN next : next[j].name = name}
       IN  /\ name_cache' = next
           /\ output' = IF \E j \in hit : next[j].count = 2
                        THEN Append(output, Line(fi, name, 2))
                        ELSE output
    /\ UNCHANGED <<files, fi, pc, root, ii, parse_log, exit_status>>

CountElem ==
    /\ pc = "count"
    /\ ei < Len(IterRoot(root))
    /\ ei' = ei + 1
    /\ LET name == AttribGetName(IterRoot(root)[ei + 1])
       IN  name_cache' = IF Truthy(name) THEN Incr(name_cache, name) ELSE name_cache
    /\ UNCHANGED <<files, fi, pc, root, ii, output, parse_log, exit_status>>

\* The first loop is exhausted; the second begins.
CountDone ==
    /\ pc = "count"
    /\ ei = Len(IterRoot(root))
    /\ ii' = 0
    /\ pc' = "report"
    /\ UNCHANGED <<files, fi, root, ei, name_cache, output, parse_log, exit_status>>

\* One iteration of `for name, count in name_cache.items()`.
ReportItem ==
    /\ pc = "report"
    /\ ii < Len(name_cache)
    /\ ii' = ii + 1
    /\ LET it == name_cache[ii + 1]
       IN  output' = IF IsDuplicate(it.count)
                     THEN Append(output, Line(fi, it.name, it.count))
                     ELSE output
    /\ UNCHANGED <<files, fi, pc, root, ei, name_cache, parse_log, exit_status>>

\* check_xml returns to the module-level loop.
Return ==
    /\ pc = "report"
    /\ ii = Len(name_cache)
    /\ pc' = "main"
    /\ UNCHANGED <<files, fi, root, ei, name_cache, ii, output, parse_log, exit_status>>

Next ==
    \/ CallNext
    \/ Finish
    \/ ParseOk
    \/ ParseError
    \/ CountElem
    \/ CountDone
    \/ ReportItem
    \/ Return

Spec == Init /\ [][Next]_vars

\* ------------------------------------------------------------- vocabulary
\* The values a child can carry in its `name` attribute.
Keys == {<<v>> : v \in Names}

\* Number of immediate children of a root that carry `name` = k.
Occ(r, k) == Cardinality({j \in DOMAIN r : r[j].name = k})

\* Number of deeper descendants of a root that carry `name` = k.
DeepOcc(r, k) ==
    Cardinality({<<j, i>> \in (DOMAIN r) \X (1..MaxSize) :
                    i \in DOMAIN r[j].kids /\ r[j].kids[i] = k})

\* Position of the first immediate child that carries `name` = k (0: none).
FirstIdx(r, k) ==
    LET at == {j \in DOMAIN r : r[j].name = k}
    IN  IF at = {} THEN 0 ELSE CHOOSE j \in at : \A i \in at : j <= i

\* check_xml has returned for file f.
Completed(f) ==
    /\ f \in DOMAIN files
    /\ \/ f < fi
       \/ f = fi /\ pc = "main"
       \/ f = fi /\ pc = "exited" /\ exit_status = <<0>>

\* The printed lines about file f: as positions for one key, and in order.
LinesFor(f, k) == {j \in DOMAIN output : output[j].file = f /\ output[j].name = k}

LinesOf(f) == SelectSeq(output, LAMBDA l : l.file = f)

\* Count the tally holds for key k (0: no item).
CacheCount(k) ==
    LET hit == {j \in DOMAIN name_cache : name_cache[j].name = k}
    IN  IF hit = {} THEN 0 ELSE name_cache[CHOOSE j \in hit : TRUE].count

\* The children of a root that carry a `name` attribute.
Named(elems) == SelectSeq(elems, LAMBDA e : e.name # << >>)

RECURSIVE ReportsUpTo(_)
\* What a run prints for the files 1..n when each of them parses.
ReportsUpTo(n) ==
    IF n = 0 THEN << >>
    ELSE ReportsUpTo(n - 1) \o Report(n, Tally(IterRoot(files[n].root)))

\* ------------------------------------------------------------------ claims

\* C1: for every file and every key, a key that is the name of exactly
\* k >= 2 immediate children of the root gets exactly one printed line once
\* check_xml has returned for the file, that line carries the count k, and
\* no line about that file and key carries another count.
C1_DuplicateReportedOnceWithCount ==
    \A f \in DOMAIN files : \A k \in Keys :
        LET n == Occ(files[f].root, k)
        IN  n >= 2 =>
              /\ \A j \in LinesFor(f, k) : output[j].count = n
              /\ Completed(f) => Cardinality(LinesFor(f, k)) = 1

\* C2: a key that names exactly one immediate child is never printed for
\* that file; a file without a duplicated key has no line at all; and when
\* no file has a duplicated key nothing is printed.
C2_NoFalsePositives ==
    /\ \A f \in DOMAIN files : \A k \in Keys :
          Occ(files[f].root, k) = 1 => LinesFor(f, k) = {}
    /\ \A f \in DOMAIN files :
          (\A k \in Keys : Occ(files[f].root, k) <= 1) => LinesOf(f) = << >>
    /\ (\A f \in DOMAIN files : \A k \in Keys : Occ(files[f].root, k) <= 1)
          => output = << >>

\* A returned file in which one key is duplicated and reported while another
\* key, present once, is not.
C2_Witness ==
    \E f \in DOMAIN files : \E k1, k2 \in Keys :
        /\ Completed(f)
        /\ Occ(files[f].root, k1) = 1 /\ LinesFor(f, k1) = {}
        /\ LinesFor(f, k2) # {}

\* C3: every immediate child with a name attribute increments the tally of
\* its value, whatever the value (the empty string too): when the first loop
\* is over the tally holds, for every value, the number of children carrying
\* it, and a value carried by two or more children is printed with that
\* number.
C3_EveryNamedChildCounted ==
    /\ pc = "report" => \A k \in Keys : CacheCount(k) = Occ(root, k)
    /\ \A f \in DOMAIN files : \A k \in Keys :
          (Completed(f) /\ Occ(files[f].root, k) >= 2) =>
              \E j \in LinesFor(f, k) : output[j].count = Occ(files[f].root, k)

\* C4: children without a name attribute are never counted and never
\* printed: the tally and the printed lines of a file are those of the same
\* file with every such child removed.
C4_UnnamedChildrenIgnored ==
    /\ \A j \in DOMAIN name_cache : name_cache[j].name # << >>
    /\ \A j \in DOMAIN output : output[j].name # << >>
    /\ pc = "report" => name_cache = Tally(Named(IterRoot(root)))
    /\ \A f \in DOMAIN files :
          Completed(f) => LinesOf(f) = Report(f, Tally(Named(IterRoot(files[f].root))))

\* A returned file with a child that has no name attribute and a reported
\* duplicate.
C4_Witness ==
    \E f \in DOMAIN files :
        /\ Completed(f)
        /\ \E j \in DOMAIN files[f].root : files[f].root[j].name = << >>
        /\ LinesOf(f) # << >>

\* C5: only immediate children of the root are tallied: no count exceeds
\* the number of immediate children carrying the key, and a key carried by
\* at most one immediate child is not printed however many deeper
\* descendants carry it.
C5_OnlyImmediateChildren ==
    /\ pc \in {"count", "report"} =>
          \A j \in DOMAIN name_cache :
              name_cache[j].count <= Occ(root, name_cache[j].name)
    /\ \A f \in DOMAIN files : \A k \in Keys :
          Occ(files[f].root, k) <= 1 => LinesFor(f, k) = {}
    /\ \A j \in DOMAIN output :
          output[j].count = Occ(files[output[j].file].root, output[j].name)

\* A returned file where a key occurs twice or more counting descendants,
\* at most once among the immediate children, and is not printed.
C5_Witness ==
    \E f \in DOMAIN files : \E k \in Keys :
        /\ Completed(f)
        /\ Occ(files[f].root, k) <= 1
        /\ DeepOcc(files[f].root, k) >= 1
        /\ Occ(files[f].root, k) + DeepOcc(files[f].root, k) >= 2
        /\ LinesFor(f, k) = {}

\* C6: the tally starts empty for each file and the lines of a file are a
\* function of that file's content alone; a key present once in each of two
\* files is printed for neither.
C6_ScopedPerFile ==
    /\ (pc = "count" /\ ei = 0) => name_cache = << >>
    /\ \A f \in DOMAIN files :
          Completed(f) => LinesOf(f) = Report(f, Tally(IterRoot(files[f].root)))
    /\ \A f, g \in DOMAIN files : \A k \in Keys :
          (f # g /\ Occ(files[f].root, k) = 1 /\ Occ(files[g].root, k) = 1)
              => (LinesFor(f, k) = {} /\ LinesFor(g, k) = {})

\* Two returned files that share a key each holds once; nothing printed.
C6_Witness ==
    \E f, g \in DOMAIN files : \E k \in Keys :
        /\ f < g /\ Completed(f) /\ Completed(g)
        /\ Truthy(k)
        /\ Occ(files[f].root, k) = 1 /\ Occ(files[g].root, k) = 1
        /\ output = << >>

\* C7: a malformed file stops the run: the loop never moves past it, the
\* run ends there with a failure, nothing is printed for it or for a later
\* file, no later file is parsed, and the output is what the earlier files
\* print.
C7_MalformedStopsRun ==
    \A f \in DOMAIN files :
        (~files[f].ok /\ f <= fi) =>
            /\ fi = f
            /\ pc \in {"parse", "exited"}
            /\ pc = "exited" => exit_status = <<1>>
            /\ \A j \in DOMAIN output : output[j].file < f
            /\ \A j \in DOMAIN parse_log : parse_log[j] <= f
            /\ pc = "exited" => output = ReportsUpTo(f - 1)

\* A run ended by a malformed file, after a file with a printed finding
\* and before another file.
C7_Witness ==
    /\ pc = "exited" /\ exit_status = <<1>>
    /\ ~files[fi].ok
    /\ fi < Len(files)
    /\ output # << >>
    /\ parse_log[Len(parse_log)] = fi

\* C8 as stated: every run ends with exit status 0.
C8_AlwaysExitsZero == pc = "exited" => exit_status = <<0>>

\* C8 amended: a run ends with exit status 0 exactly when every located file
\* parses, whatever was printed; a run that meets a malformed file ends with
\* a non-zero status.
C8_ExitsZeroIffAllParse ==
    pc = "exited" =>
        (exit_status = <<0>> <=> \A f \in DOMAIN files : files[f].ok)

\* A run that printed findings and ended with status 0.
C8_Witness ==
    /\ pc = "exited" /\ exit_status = <<0>>
    /\ output # << >>

\* C9: files are handled one at a time in the locator's order: each parse
\* is of the next path and happens when every printed line is about an
\* earlier file; each line is printed for the file parsed last, after the
\* first loop over its children is over.
C9_OneFileAtATime ==
    /\ [][parse_log' # parse_log =>
            /\ parse_log' = Append(parse_log, Len(parse_log) + 1)
            /\ fi = Len(parse_log) + 1
            /\ \A j \in DOMAIN output : output[j].file < fi]_vars
    /\ [][output' # output =>
            /\ pc = "report"
            /\ ei = Len(IterRoot(root))
            /\ fi = parse_log[Len(parse_log)]
            /\ \E l \in [file : {fi}, name : NameOpts, count : 1..MaxSize] :
                  output' = Append(output, l)
            /\ parse_log' = parse_log]_vars

\* Lines of a first file on the output while a second one is being reported.
C9_Witness ==
    /\ pc = "report"
    /\ fi = 2
    /\ LinesOf(1) # << >>
    /\ LinesOf(2) # << >>

\* C10: within one file the lines come in first-seen order of their keys.
C10_FirstSeenOrder ==
    \A i, j \in DOMAIN output :
        (i < j /\ output[i].file = output[j].file) =>
            FirstIdx(files[output[i].file].root, output[i].name)
                < FirstIdx(files[output[j].file].root, output[j].name)

\* Two duplicated keys of one file, both printed, the second key's first
\* occurrence lying between the occurrences of the first key.
C10_Witness ==
    \E i, j \in DOMAIN output :
        /\ i < j /\ output[i].file = output[j].file
        /\ LET r == files[output[i].file].root
           IN  \E x, y \in DOMAIN r :
                  /\ FirstIdx(r, output[j].name) < x /\ x < y
                  /\ r[x].name = output[j].name
                  /\ r[y].name = output[i].name

====
